---- MODULE Spec2Model ----
(***************************************************************************)
(* A model of treez/functional_api.py: the Kruskal tree builder and the    *)
(* tree queries (root, root path, common ancestor, edge distance, weighted *)
(* distance, cut on a property, leaves under a binary property).           *)
(*                                                                         *)
(* Python dictionaries are TLA+ functions whose DOMAIN is the set of keys, *)
(* Python lists are sequences, Python sets are sets.                       *)
(*                                                                         *)
(* SpecKruskal runs kruskal_tree, one iteration of its loop at a time, on  *)
(* every small weighted edge list.  Spec makes the path queries and        *)
(* SpecProp the queries that take a node property, on every small forest.  *)
(* treez/util.py (UFDS, the exceptions) is not among the sources: UFDS is  *)
(* modelled from its contract.                                             *)
(***************************************************************************)
EXTENDS Integers, Sequences, FiniteSets, TLC

VARIABLES
    edges,      \* kruskal_tree argument: the sequence of edges <<n1, n2>>
    eweights,   \* kruskal_tree argument: edge -> weight
    size,       \* kruskal_tree argument: leaf -> size
    parents,    \* Parenthood: node -> parent
    children,   \* Childhood: node -> sequence of children
    props,      \* node properties returned by kruskal_tree: weights, size
    k_edges,    \* kruskal_tree: the retained edges
    k_weights,  \* kruskal_tree: their weights
    max_node,   \* kruskal_tree: the next internal node
    idx,        \* kruskal_tree: the position of its loop in k_edges
    nprop,      \* the node property given to cut_on_property or get_leaves
    call,       \* the last call made: its name and arguments
    result      \* what that call returned or raised

vars == <<edges, eweights, size, parents, children, props,
          k_edges, k_weights, max_node, idx, nprop, call, result>>

----------------------------------------------------------------------------
(* Bounds of the model *)

\* node identifiers of the Kruskal inputs are 0..MaxId
MaxId == 4
\* at most MaxEdges edges in a Kruskal input
MaxEdges == 3
\* the trees given to the path queries have the nodes 0..MaxNode
MaxNode == 3
\* the trees given to cut_on_property and get_leaves have the nodes 0..MaxPropNode
MaxPropNode == 2
\* the values of a numerical node property are 1..MaxProp
MaxProp == 2

----------------------------------------------------------------------------
(* Values that are not nodes *)

\* Python's None
None == -1
\* a loop that never ends (a parent map with a cycle)
Diverges == -2

EmptyMap == <<>>

\* d[k] = v on a dictionary
Put(d, k, v) == [x \in (DOMAIN d) \cup {k} |-> IF x = k THEN v ELSE d[x]]

\* set(list)
ToSet(s) == {s[i] : i \in DOMAIN s}

----------------------------------------------------------------------------
(* get_root *)

\* the while loop of get_root: at most one hop per key unless there is a cycle
RECURSIVE Climb(_, _, _)
Climb(p, root, fuel) ==
    IF root \notin DOMAIN p THEN root
    ELSE IF fuel = 0 THEN Diverges
    ELSE Climb(p, p[root], fuel - 1)

\* get_root(parents, node) with a node given
GetRoot(p, node) ==
    IF node \notin DOMAIN p THEN node
    ELSE Climb(p, node, Cardinality(DOMAIN p))

\* get_root(parents): the roots the call can return, one per first key of the
\* dictionary; None when the dictionary is empty
GetRootOfAny(p) ==
    IF DOMAIN p = {} THEN {None}
    ELSE {GetRoot(p, k) : k \in DOMAIN p}

----------------------------------------------------------------------------
(* Union-Find (treez/util.py, UFDS) *)

\* UFDS.get_root: the representative of the node's component
UfdsGetRoot(comp, n) == GetRoot(comp, n)

\* UFDS.union: the representative of the second endpoint joins the first's
UfdsUnion(comp, edge) ==
    Put(comp, UfdsGetRoot(comp, edge[2]), UfdsGetRoot(comp, edge[1]))

----------------------------------------------------------------------------
(* kruskal_edges *)

\* sorted(edges, key=lambda x: weights[x]): a stable sort
RECURSIVE InsertSorted(_, _, _)
InsertSorted(s, e, w) ==
    IF s = <<>> THEN <<e>>
    ELSE IF w[e] < w[Head(s)] THEN <<e>> \o s
    ELSE <<Head(s)>> \o InsertSorted(Tail(s), e, w)

RECURSIVE SortSeqFrom(_, _, _, _)
SortSeqFrom(es, w, i, acc) ==
    IF i > Len(es) THEN acc
    ELSE SortSeqFrom(es, w, i + 1, InsertSorted(acc, es[i], w))

SortedByWeight(es, w) == SortSeqFrom(es, w, 1, <<>>)

\* the loop of kruskal_edges over the sorted edges: an edge whose endpoints are
\* in different components is retained and its components are united
RECURSIVE KruskalLoop(_, _, _, _, _, _)
KruskalLoop(es, w, i, comp, kes, kws) ==
    IF i > Len(es) THEN [k_edges |-> kes, k_weights |-> kws]
    ELSE LET edge == es[i]
             rn1 == UfdsGetRoot(comp, edge[1])
             rn2 == UfdsGetRoot(comp, edge[2])
         IN  IF rn1 # rn2
             THEN KruskalLoop(es, w, i + 1, UfdsUnion(comp, edge),
                              Append(kes, edge), Append(kws, w[edge]))
             ELSE KruskalLoop(es, w, i + 1, comp, kes, kws)

KruskalEdges(es, w) ==
    KruskalLoop(SortedByWeight(es, w), w, 1, EmptyMap, <<>>, <<>>)

----------------------------------------------------------------------------
(* kruskal_tree *)

\* numbering the internal nodes from len(k_edges)
FirstInternalFromCount(kes) == Len(kes)

\* max_node = 2 * len(k_edges)
FirstInternal(kes) == 2 * Len(kes)

\* the size of a root: the stored one, else the size of the edge's endpoint,
\* which is then stored for the root
SizeOf(sz, sizeprop, rn, n) == IF rn \in DOMAIN sizeprop THEN sizeprop[rn] ELSE sz[n]

StoreSize(sz, sizeprop, rn, n) ==
    IF rn \in DOMAIN sizeprop THEN sizeprop ELSE Put(sizeprop, rn, sz[n])

\* children[max_node] = [rn1, rn2]
MergeChildren(rn1, rn2) == <<rn1, rn2>>

\* one iteration of the loop of kruskal_tree on the state of the loop
MergeStep(st, edge, weight, sz) ==
    LET n1  == edge[1]
        n2  == edge[2]
        rn1 == GetRoot(st.parents, n1)
        rn2 == GetRoot(st.parents, n2)
        s1  == SizeOf(sz, st.size, rn1, n1)
        sp1 == StoreSize(sz, st.size, rn1, n1)
        s2  == SizeOf(sz, sp1, rn2, n2)
        sp2 == StoreSize(sz, sp1, rn2, n2)
        m   == st.max_node
    IN  [parents  |-> Put(Put(st.parents, rn1, m), rn2, m),
         children |-> Put(st.children, m, MergeChildren(rn1, rn2)),
         weights  |-> Put(st.weights, m, weight),
         size     |-> Put(sp2, m, s1 + s2),
         max_node |-> m + 1]

----------------------------------------------------------------------------
(* Inputs of kruskal_tree *)

Ids == 0..MaxId

\* the edges <<a, b>> with a < b, in lexicographic order
AllEdges == {<<a, b>> : a \in Ids, b \in Ids} \ {e \in Ids \X Ids : e[1] >= e[2]}

EdgeLess(e, f) == e[1] < f[1] \/ (e[1] = f[1] /\ e[2] < f[2])

RECURSIVE SeqOfEdges(_)
SeqOfEdges(E) ==
    IF E = {} THEN <<>>
    ELSE LET e == CHOOSE x \in E : \A y \in E \ {x} : EdgeLess(x, y)
         IN  <<e>> \o SeqOfEdges(E \ {e})

Flip(es) == [i \in DOMAIN es |-> <<es[Len(es) + 1 - i][2], es[Len(es) + 1 - i][1]>>]

LeavesOf(es) == UNION {{es[i][1], es[i][2]} : i \in DOMAIN es}

\* the weights of an edge set, up to their order: every weight from 1 to the
\* largest one is the weight of some edge
WeightsOf(E) ==
    {w \in [E -> 1..Cardinality(E)] :
        \A v \in 1..Cardinality(E) :
            (\E e \in E : w[e] = v) \/ (\A e \in E : w[e] < v)}

NoCall == [op |-> "none"]
NoResult == [kind |-> "none"]

\* the two presentations of an edge set: in lexicographic order with unit
\* sizes, or reversed, each edge turned round, with size n + 1 for leaf n
InitKruskal ==
    /\ \E E \in SUBSET AllEdges, variant \in BOOLEAN :
         /\ Cardinality(E) \in 1..MaxEdges
         /\ edges = IF variant THEN Flip(SeqOfEdges(E)) ELSE SeqOfEdges(E)
         /\ size = [n \in LeavesOf(edges) |-> IF variant THEN n + 1 ELSE 1]
    /\ eweights \in WeightsOf(ToSet(edges))
    /\ parents = EmptyMap
    /\ children = EmptyMap
    /\ props = [weights |-> EmptyMap, size |-> EmptyMap]
    /\ k_edges = <<>>
    /\ k_weights = <<>>
    /\ max_node = 0
    /\ idx = 0
    /\ nprop = EmptyMap
    /\ call = NoCall
    /\ result = NoResult

LoopState ==
    [parents |-> parents, children |-> children, weights |-> props.weights,
     size |-> props.size, max_node |-> max_node]

\* kruskal_tree(edges, weights, size) up to its loop
CallKruskalTree ==
    /\ call.op = "none"
    /\ LET k == KruskalEdges(edges, eweights)
       IN  /\ k_edges' = k.k_edges
           /\ k_weights' = k.k_weights
           /\ max_node' = FirstInternal(k.k_edges)
    /\ idx' = 1
    /\ call' = [op |-> "kruskal_tree"]
    /\ result' = [kind |-> "running"]
    /\ UNCHANGED <<edges, eweights, size, parents, children, props, nprop>>

Merging == call.op = "kruskal_tree" /\ result.kind = "running" /\ idx <= Len(k_edges)

RootsFound ==
    /\ GetRoot(parents, k_edges[idx][1]) # Diverges
    /\ GetRoot(parents, k_edges[idx][2]) # Diverges

\* one iteration of the loop
Merge ==
    /\ Merging
    /\ RootsFound
    /\ LET st == MergeStep(LoopState, k_edges[idx], k_weights[idx], size)
       IN  /\ parents' = st.parents
           /\ children' = st.children
           /\ props' = [weights |-> st.weights, size |-> st.size]
           /\ max_node' = st.max_node
    /\ idx' = idx + 1
    /\ UNCHANGED <<edges, eweights, size, k_edges, k_weights, nprop, call, result>>

\* get_root never returns on a parent map with a cycle, and kruskal_tree with it
MergeHangs ==
    /\ Merging
    /\ ~RootsFound
    /\ result' = [kind |-> "diverges"]
    /\ UNCHANGED <<edges, eweights, size, parents, children, props,
                   k_edges, k_weights, max_node, idx, nprop, call>>

\* return parents, children, props
ReturnTree ==
    /\ call.op = "kruskal_tree"
    /\ result.kind = "running"
    /\ idx > Len(k_edges)
    /\ result' = [kind |-> "returns"]
    /\ UNCHANGED <<edges, eweights, size, parents, children, props,
                   k_edges, k_weights, max_node, idx, nprop, call>>

NextKruskal == CallKruskalTree \/ Merge \/ MergeHangs \/ ReturnTree

SpecKruskal == InitKruskal /\ [][NextKruskal]_vars

----------------------------------------------------------------------------
(* Properties of the Kruskal tree builder *)

Range(f) == {f[x] : x \in DOMAIN f}

\* the nodes of the structure kruskal_tree builds
BuiltNodes == LeavesOf(edges) \cup DOMAIN parents \cup Range(parents) \cup DOMAIN children

\* the nodes with no entry in parents
BuiltRoots == BuiltNodes \ DOMAIN parents

\* the leaves an edge list joins to leaf n
RECURSIVE Joined(_, _)
Joined(es, S) ==
    LET T == S \cup {es[i][2] : i \in {j \in DOMAIN es : es[j][1] \in S}}
                 \cup {es[i][1] : i \in {j \in DOMAIN es : es[j][2] \in S}}
    IN  IF T = S THEN S ELSE Joined(es, T)

Connected(es) == \A n \in LeavesOf(es) : Joined(es, {n}) = LeavesOf(es)

KruskalOver == call.op = "kruskal_tree" /\ result.kind \in {"returns", "diverges"}

\* C1: for a connected weighted graph, kruskal_tree returns a structure with
\* exactly one node without a parent, and as many internal nodes as retained
\* edges, which are one fewer than the leaves.
C1_SingleRootAndCounts ==
    (KruskalOver /\ Connected(edges)) =>
        /\ result.kind = "returns"
        /\ Cardinality(BuiltRoots) = 1
        /\ Cardinality(DOMAIN children) = Len(k_edges)
        /\ Len(k_edges) = Cardinality(LeavesOf(edges)) - 1

\* the size of a root before a merge: the stored one, else the leaf's own
SizeBefore(rn) ==
    IF rn \in DOMAIN props.size THEN props.size[rn]
    ELSE IF rn \in DOMAIN size THEN size[rn] ELSE None

\* what the merge of the retained edge at position idx must leave behind
MergedAsClaimed ==
    LET i   == idx - 1
        m   == 2 * Len(k_edges) + i
        rn1 == GetRoot(parents, k_edges[idx][1])
        rn2 == GetRoot(parents, k_edges[idx][2])
    IN  /\ m \in DOMAIN children' /\ children'[m] = <<rn1, rn2>>
        /\ {rn1, rn2} \subseteq DOMAIN parents'
        /\ parents'[rn1] = m /\ parents'[rn2] = m
        /\ m \in DOMAIN props'.weights /\ props'.weights[m] = eweights[k_edges[idx]]
        /\ m \in DOMAIN props'.size
        /\ props'.size[m] = SizeBefore(rn1) + SizeBefore(rn2)
        /\ \A j \in 1..(idx - 1) : eweights[k_edges[j]] <= eweights[k_edges[idx]]

ScenarioEdges == <<(<<0, 1>>), (<<1, 2>>), (<<2, 3>>)>>

ScenarioInput ==
    /\ edges = ScenarioEdges
    /\ eweights = (<<0, 1>> :> 1) @@ (<<2, 3>> :> 2) @@ (<<1, 2>> :> 3)
    /\ size = [n \in 0..3 |-> 1]

ScenarioOutput ==
    /\ parents = (0 :> 6) @@ (1 :> 6) @@ (2 :> 7) @@ (3 :> 7) @@ (6 :> 8) @@ (7 :> 8)
    /\ children = (6 :> <<0, 1>>) @@ (7 :> <<2, 3>>) @@ (8 :> <<6, 7>>)
    /\ props.weights = (6 :> 1) @@ (7 :> 2) @@ (8 :> 3)
    /\ props.size[6] = 2 /\ props.size[7] = 2 /\ props.size[8] = 4
    /\ BuiltRoots = {8}

\* C2: the i-th merge (i from 0), of the retained edge (n1, n2) of weight w,
\* creates node 2*|k_edges| + i with the roots of n1 and n2 before the merge as
\* its children, itself as their parent, w as its weight and the sum of their
\* sizes as its size; the retained edges come in non-decreasing weight order;
\* and the scenario of leaves 0..3 ends with nodes 6, 7, 8 and root 8.
C2_MergeCreatesNode ==
    [][/\ (Merging /\ idx' = idx + 1) => MergedAsClaimed
       /\ (ScenarioInput /\ result'.kind = "returns") => ScenarioOutput']_vars

C2_Witness == ScenarioInput /\ result.kind = "returns" /\ 8 \in DOMAIN children

\* C3: whatever identifiers the leaves carry, the parent map kruskal_tree
\* builds has no cycle: get_root ends on every node of it.
C3_ParentsAcyclic ==
    (call.op = "kruskal_tree") =>
        \A n \in BuiltNodes : GetRoot(parents, n) # Diverges

----------------------------------------------------------------------------
(* get_root_path, get_root_path_match *)

Returns(v) == [kind |-> "returns", val |-> v]
ReturnsNone == [kind |-> "returns_none"]
Raises(e) == [kind |-> "raises", exc |-> e]

\* the while loop of get_root_path: the parent is appended at every hop (the
\* loop ends on every parent map without a cycle, the only ones given here)
RECURSIVE PathLoop(_, _, _)
PathLoop(p, root, root_path) ==
    IF root \notin DOMAIN p THEN root_path
    ELSE PathLoop(p, p[root], Append(root_path, p[root]))

\* a path that leaves out the node it starts from
GetRootPathFromParent(p, node) ==
    IF node \notin DOMAIN p THEN <<node>>
    ELSE PathLoop(p, p[node], <<p[node]>>)

GetRootPath(p, node) ==
    IF node \notin DOMAIN p THEN <<node>>
    ELSE PathLoop(p, node, <<node>>)

\* the while loop of get_root_path_match: it returns the path once root is the
\* target, and falls out of the loop, and of the function, at the root
RECURSIVE MatchLoop(_, _, _, _)
MatchLoop(p, root, target, root_path) ==
    IF root \notin DOMAIN p THEN ReturnsNone
    ELSE IF root = target THEN Returns(root_path)
    ELSE MatchLoop(p, p[root], target, Append(root_path, p[root]))

GetRootPathMatch(p, node, target) ==
    IF target \notin DOMAIN p THEN Returns(GetRootPath(p, node))
    ELSE IF node \notin DOMAIN p THEN Returns(<<>>)
    ELSE MatchLoop(p, node, target, <<node>>)

----------------------------------------------------------------------------
(* common_ancestor, edge_dist *)

\* the common node nearest to the root, not to node1
LastCommon(rp1, rp2, i) == rp1[Len(rp1)]

\* for node in rp1: if node in rp2: return node
RECURSIVE FirstCommon(_, _, _)
FirstCommon(rp1, rp2, i) ==
    IF rp1[i] \in ToSet(rp2) THEN rp1[i] ELSE FirstCommon(rp1, rp2, i + 1)

CommonAncestor(p, node1, node2) ==
    IF node1 \in DOMAIN p /\ node2 \in DOMAIN p
    THEN LET rp1 == GetRootPath(p, node1)
             rp2 == GetRootPath(p, node2)
         IN  IF ToSet(rp1) \cap ToSet(rp2) # {}
             THEN Returns(FirstCommon(rp1, rp2, 1))
             ELSE Raises("UnrelatedNode")
    ELSE Raises("UnrelatedNode")

\* the hops between the spanned nodes, not the nodes
SpannedHops(rpm1, rpm2) == Cardinality(ToSet(rpm1) \cup ToSet(rpm2)) - 1

\* len(set(rpm1) | set(rpm2))
SpannedCount(rpm1, rpm2) == Cardinality(ToSet(rpm1) \cup ToSet(rpm2))

EdgeDist(p, node1, node2) ==
    LET ancestor == CommonAncestor(p, node1, node2)
    IN  IF ancestor.kind = "raises" THEN ancestor
        ELSE LET rpm1 == GetRootPathMatch(p, node1, ancestor.val)
                 rpm2 == GetRootPathMatch(p, node2, ancestor.val)
             IN  IF rpm1.kind = "returns_none" \/ rpm2.kind = "returns_none"
                 THEN Raises("TypeError")
                 ELSE Returns(SpannedCount(rpm1.val, rpm2.val))

----------------------------------------------------------------------------
(* Trees given to the queries *)

\* the parent maps without a cycle over a set of nodes
Forests(N) ==
    {p \in UNION {[D -> N] : D \in SUBSET N} :
        \A n \in DOMAIN p : Climb(p, n, Cardinality(DOMAIN p)) # Diverges}

\* the elements of a set of nodes in increasing order
RECURSIVE Ascending(_)
Ascending(S) ==
    IF S = {} THEN <<>>
    ELSE LET n == CHOOSE x \in S : \A y \in S : x <= y
         IN  <<n>> \o Ascending(S \ {n})

\* the Childhood consistent with a Parenthood
ChildrenOf(p) ==
    [n \in {p[c] : c \in DOMAIN p} |-> Ascending({c \in DOMAIN p : p[c] = n})]

Nodes == 0..MaxNode

Init ==
    /\ parents \in Forests(Nodes)
    /\ children = ChildrenOf(parents)
    /\ edges = <<>>
    /\ eweights = EmptyMap
    /\ size = EmptyMap
    /\ props = [weights |-> EmptyMap, size |-> EmptyMap]
    /\ k_edges = <<>>
    /\ k_weights = <<>>
    /\ max_node = 0
    /\ idx = 0
    /\ nprop = EmptyMap
    /\ call = NoCall
    /\ result = NoResult

\* the queries are pure functions: a call leaves the tree as it was, so one call
\* on every tree and every argument covers every call of a longer run
Idle == call.op = "none"

TreeUnchanged ==
    UNCHANGED <<edges, eweights, size, parents, children, props,
                k_edges, k_weights, max_node, idx>>

\* get_root(parents, node)
CallGetRoot ==
    /\ Idle
    /\ \E node \in Nodes :
            /\ call' = [op |-> "get_root", node |-> node]
            /\ result' = Returns(GetRoot(parents, node))
            /\ UNCHANGED nprop
            /\ TreeUnchanged

\* get_root_path(parents, node)
CallGetRootPath ==
    /\ Idle
    /\ \E node \in Nodes :
            /\ call' = [op |-> "get_root_path", node |-> node]
            /\ result' = Returns(GetRootPath(parents, node))
            /\ UNCHANGED nprop
            /\ TreeUnchanged

\* get_root_path_match(parents, node, target)
CallGetRootPathMatch ==
    /\ Idle
    /\ \E node \in Nodes, target \in Nodes :
            /\ call' = [op |-> "get_root_path_match", node |-> node, target |-> target]
            /\ result' = GetRootPathMatch(parents, node, target)
            /\ UNCHANGED nprop
            /\ TreeUnchanged

\* common_ancestor(parents, node1, node2)
CallCommonAncestor ==
    /\ Idle
    /\ \E node1 \in Nodes, node2 \in Nodes :
            /\ call' = [op |-> "common_ancestor", node1 |-> node1, node2 |-> node2]
            /\ result' = CommonAncestor(parents, node1, node2)
            /\ UNCHANGED nprop
            /\ TreeUnchanged

\* edge_dist(parents, node1, node2)
CallEdgeDist ==
    /\ Idle
    /\ \E node1 \in Nodes, node2 \in Nodes :
            /\ call' = [op |-> "edge_dist", node1 |-> node1, node2 |-> node2]
            /\ result' = EdgeDist(parents, node1, node2)
            /\ UNCHANGED nprop
            /\ TreeUnchanged

Next ==
    \/ CallGetRoot
    \/ CallGetRootPath
    \/ CallGetRootPathMatch
    \/ CallCommonAncestor
    \/ CallEdgeDist

Spec == Init /\ [][Next]_vars

----------------------------------------------------------------------------
(* Properties of the path queries *)

\* a node and its ancestors
RECURSIVE Up(_, _)
Up(p, S) ==
    LET T == S \cup {p[x] : x \in S \cap DOMAIN p}
    IN  IF T = S THEN S ELSE Up(p, T)

AncSelf(p, n) == Up(p, {n})

\* the parent hops from a node to its root
Hops(p, n) == Cardinality(AncSelf(p, n)) - 1

Shared(p, n1, n2) == AncSelf(p, n1) \cap AncSelf(p, n2)

\* the lowest common ancestor: the deepest node that is an ancestor-or-self of both
Lowest(p, n1, n2) ==
    CHOOSE a \in Shared(p, n1, n2) : \A b \in Shared(p, n1, n2) : Hops(p, b) <= Hops(p, a)

\* the tree edges on the path from n1 up to the lowest common ancestor and down to n2
TreeEdges(p, n1, n2) ==
    (Hops(p, n1) - Hops(p, Lowest(p, n1, n2))) + (Hops(p, n2) - Hops(p, Lowest(p, n1, n2)))

\* C4: get_root_path(parents, n) starts at n, goes from each node to its
\* parent, ends at get_root(parents, n) and has as many elements as there are
\* parent hops from n to its root, plus one; for n in parents or not.
C4_RootPath ==
    (call.op = "get_root_path") =>
        /\ result.kind = "returns"
        /\ LET path == result.val
           IN  /\ Len(path) = Hops(parents, call.node) + 1
               /\ path[1] = call.node
               /\ path[Len(path)] = GetRoot(parents, call.node)
               /\ \A i \in 1..(Len(path) - 1) :
                    path[i] \in DOMAIN parents /\ path[i + 1] = parents[path[i]]

C4_Witness ==
    /\ call.op = "get_root_path"
    /\ call.node \in DOMAIN parents
    /\ result.kind = "returns"
    /\ Len(result.val) = 3

\* C5: for nodes of parents that share an ancestor, edge_dist is the number of
\* tree edges on the path between them via their lowest common ancestor.
C5_EdgeDistCountsEdges ==
    (/\ call.op = "edge_dist"
     /\ {call.node1, call.node2} \subseteq DOMAIN parents
     /\ Shared(parents, call.node1, call.node2) # {}) =>
        result = Returns(TreeEdges(parents, call.node1, call.node2))

C7_CommonAncestor ==
    (call.op = "common_ancestor") =>
        LET n1 == call.node1
            n2 == call.node2
        IN  IF \/ n1 \notin DOMAIN parents
               \/ n2 \notin DOMAIN parents
               \/ Shared(parents, n1, n2) = {}
            THEN result = Raises("UnrelatedNode")
            ELSE /\ result.kind = "returns"
                 /\ result.val \in Shared(parents, n1, n2)
                 /\ \A b \in Shared(parents, n1, n2) :
                        Hops(parents, b) <= Hops(parents, result.val)
                 /\ \A a \in AncSelf(parents, n1) :
                        Hops(parents, a) > Hops(parents, result.val)
                            => a \notin AncSelf(parents, n2)

C7_Witness ==
    /\ call.op = "common_ancestor"
    /\ result.kind = "returns"
    /\ result.val \notin {call.node1, call.node2}
    /\ result.val \in DOMAIN parents

\* the root path of n up to and including t
RECURSIVE UpTo(_, _)
UpTo(path, t) ==
    IF path = <<>> THEN <<>>
    ELSE IF Head(path) = t THEN <<t>>
    ELSE <<Head(path)>> \o UpTo(Tail(path), t)

\* C9: get_root_path_match returns the root path of node up to and including
\* target when target is an ancestor-or-self of node, and fails with
\* NotAnAncestor when target is in parents and is never reached from node.
C9_MatchOrNotAnAncestor ==
    (call.op = "get_root_path_match") =>
        /\ call.target \in AncSelf(parents, call.node) =>
              result = Returns(UpTo(GetRootPath(parents, call.node), call.target))
        /\ (call.target \in DOMAIN parents
              /\ call.target \notin AncSelf(parents, call.node)) =>
              result = Raises("NotAnAncestor")

----------------------------------------------------------------------------
(* cut_on_property *)

\* candidates: the children of the nodes of cut, in order
RECURSIVE Candidates(_, _)
Candidates(cut, ch) ==
    IF cut = <<>> THEN <<>>
    ELSE (IF Head(cut) \in DOMAIN ch THEN ch[Head(cut)] ELSE <<>>)
             \o Candidates(Tail(cut), ch)

\* the comparison turned round
AuthorizedBelow(candidate, prop, threshold) ==
    candidate \in DOMAIN prop /\ prop[candidate] <= threshold

\* if candidate in prop: if prop[candidate] >= threshold
Authorized(candidate, prop, threshold) ==
    candidate \in DOMAIN prop /\ prop[candidate] >= threshold

ExpandOnProperty(cut, ch, prop, threshold) ==
    SelectSeq(Candidates(cut, ch), LAMBDA c : Authorized(c, prop, threshold))

\* the while loop of cut_on_property
RECURSIVE CutLoop(_, _, _, _, _)
CutLoop(cut, remaining, ch, prop, threshold) ==
    IF Len(remaining) = 0 THEN cut
    ELSE CutLoop(cut \cup ToSet(remaining),
                 ExpandOnProperty(remaining, ch, prop, threshold),
                 ch, prop, threshold)

\* the cut from a root; list(cut) is given as the set it lists
CutFrom(root, ch, prop, threshold) == CutLoop({}, <<root>>, ch, prop, threshold)

----------------------------------------------------------------------------
(* get_leaves *)

\* every child, whatever its property
AllChildren(ch, n, prop) == ch[n]

\* the loop over the children of n: those that carry the property and pass it
Qualifying(ch, n, prop) ==
    SelectSeq(ch[n], LAMBDA c : c \in DOMAIN prop /\ prop[c])

\* the body of the loop over no_lvs of get_leaves_with_prop, on node n
VisitWithProp(ch, prop, n, acc) ==
    IF n \in DOMAIN prop
    THEN IF prop[n]
         THEN IF n \in DOMAIN ch
              THEN LET candidates == Qualifying(ch, n, prop)
                   IN  [new_no_lvs |-> acc.new_no_lvs \o candidates,
                        lvs |-> IF Len(candidates) = 0
                                THEN Append(acc.lvs, n) ELSE acc.lvs]
              ELSE [acc EXCEPT !.lvs = Append(acc.lvs, n)]
         ELSE acc
    ELSE acc

RECURSIVE LevelWithProp(_, _, _, _)
LevelWithProp(ch, prop, no_lvs, acc) ==
    IF no_lvs = <<>> THEN acc
    ELSE LevelWithProp(ch, prop, Tail(no_lvs), VisitWithProp(ch, prop, Head(no_lvs), acc))

\* the while loop of get_leaves_with_prop
RECURSIVE LeavesLoopWithProp(_, _, _, _)
LeavesLoopWithProp(ch, prop, no_lvs, lvs) ==
    IF Len(no_lvs) = 0 THEN lvs
    ELSE LET acc == LevelWithProp(ch, prop, no_lvs, [new_no_lvs |-> <<>>, lvs |-> lvs])
         IN  LeavesLoopWithProp(ch, prop, acc.new_no_lvs, acc.lvs)

GetLeavesWithProp(ch, node, prop) ==
    IF node \notin DOMAIN prop THEN <<>>
    ELSE IF ~prop[node] THEN <<>>
    ELSE IF node \notin DOMAIN ch THEN <<node>>
    ELSE LeavesLoopWithProp(ch, prop, <<node>>, <<>>)

\* the body of the loop over no_lvs of get_leaves_without_prop, on node n
VisitWithoutProp(ch, n, acc) ==
    IF n \in DOMAIN ch
    THEN [acc EXCEPT !.new_no_lvs = acc.new_no_lvs \o ch[n]]
    ELSE [acc EXCEPT !.lvs = Append(acc.lvs, n)]

RECURSIVE LevelWithoutProp(_, _, _)
LevelWithoutProp(ch, no_lvs, acc) ==
    IF no_lvs = <<>> THEN acc
    ELSE LevelWithoutProp(ch, Tail(no_lvs), VisitWithoutProp(ch, Head(no_lvs), acc))

RECURSIVE LeavesLoopWithoutProp(_, _, _)
LeavesLoopWithoutProp(ch, no_lvs, lvs) ==
    IF Len(no_lvs) = 0 THEN lvs
    ELSE LET acc == LevelWithoutProp(ch, no_lvs, [new_no_lvs |-> <<>>, lvs |-> lvs])
         IN  LeavesLoopWithoutProp(ch, acc.new_no_lvs, acc.lvs)

GetLeavesWithoutProp(ch, node) ==
    IF node \notin DOMAIN ch THEN <<node>>
    ELSE LeavesLoopWithoutProp(ch, <<node>>, <<>>)

\* get_leaves(children, node, prop), prop being None when not given
GetLeaves(ch, node, given, prop) ==
    IF ~given THEN GetLeavesWithoutProp(ch, node)
    ELSE GetLeavesWithProp(ch, node, prop)

----------------------------------------------------------------------------
(* The calls with a node property *)

PropNodes == 0..MaxPropNode

\* the numerical and the binary properties of some of the nodes
NumericalProps == UNION {[D -> 1..MaxProp] : D \in SUBSET PropNodes}
BinaryProps == UNION {[D -> BOOLEAN] : D \in SUBSET PropNodes}
Thresholds == 0..(MaxProp + 1)

InitProp ==
    /\ parents \in Forests(PropNodes)
    /\ children = ChildrenOf(parents)
    /\ edges = <<>>
    /\ eweights = EmptyMap
    /\ size = EmptyMap
    /\ props = [weights |-> EmptyMap, size |-> EmptyMap]
    /\ k_edges = <<>>
    /\ k_weights = <<>>
    /\ max_node = 0
    /\ idx = 0
    /\ nprop = EmptyMap
    /\ call = NoCall
    /\ result = NoResult

\* cut_on_property(parents, children, prop, threshold); get_root(parents)
\* starts from the first key of parents, any of them here
CallCutOnProperty ==
    /\ Idle
    /\ \E prop \in NumericalProps, threshold \in Thresholds, root \in GetRootOfAny(parents) :
            /\ nprop' = prop
            /\ call' = [op |-> "cut_on_property", threshold |-> threshold]
            /\ result' = Returns(CutFrom(root, children, prop, threshold))
            /\ TreeUnchanged

\* get_leaves(children, node, prop)
CallGetLeavesWithProp ==
    /\ Idle
    /\ \E node \in PropNodes, prop \in BinaryProps :
            /\ nprop' = prop
            /\ call' = [op |-> "get_leaves", node |-> node, given |-> TRUE]
            /\ result' = Returns(GetLeaves(children, node, TRUE, prop))
            /\ TreeUnchanged

\* get_leaves(children, node)
CallGetLeaves ==
    /\ Idle
    /\ \E node \in PropNodes :
            /\ nprop' = EmptyMap
            /\ call' = [op |-> "get_leaves", node |-> node, given |-> FALSE]
            /\ result' = Returns(GetLeaves(children, node, FALSE, EmptyMap))
            /\ TreeUnchanged


----------------------------------------------------------------------------
(* Properties of cut_on_property and get_leaves *)

TreeNodes(p) == DOMAIN p \cup Range(p)

TreeRoots(p) == TreeNodes(p) \ DOMAIN p

\* a tree with at least one edge: one root above every other node
IsTree(p) == Cardinality(TreeRoots(p)) = 1

CutOfTree == call.op = "cut_on_property" /\ result.kind = "returns" /\ IsTree(parents)

BelowEveryValue(th) == \A n \in DOMAIN nprop : th < nprop[n]

AboveEvery(th, S) == \A n \in S \cap DOMAIN nprop : th > nprop[n]

\* C8 as stated, with a property every node of the tree carries: a threshold
\* below every property value gives all the nodes of the tree, a threshold
\* above every internal node's value gives the root alone.
C8_CutExtremes ==
    (CutOfTree /\ TreeNodes(parents) \subseteq DOMAIN nprop) =>
        /\ BelowEveryValue(call.threshold) => result.val = TreeNodes(parents)
        /\ AboveEvery(call.threshold, DOMAIN children) => result.val = TreeRoots(parents)

\* C8 amended: a threshold below every property value gives all the nodes of
\* the tree when every node but the root carries the property; a threshold
\* above the value of every node but the root, leaves included, gives the root
\* alone.
C8_CutExtremesOfAllNodes ==
    CutOfTree =>
        /\ (/\ BelowEveryValue(call.threshold)
            /\ DOMAIN parents \subseteq DOMAIN nprop) =>
               result.val = TreeNodes(parents)
        /\ AboveEvery(call.threshold, DOMAIN parents) =>
               result.val = TreeRoots(parents)

C8_Witness ==
    /\ CutOfTree
    /\ Cardinality(TreeNodes(parents)) = 3
    /\ DOMAIN parents \subseteq DOMAIN nprop
    /\ \E n \in DOMAIN parents \ DOMAIN children : nprop[n] = 2
    /\ call.threshold = 3
    /\ result.val = TreeRoots(parents)

Passes(n) == n \in DOMAIN nprop /\ nprop[n]

KidsOf(n) == IF n \in DOMAIN children THEN ToSet(children[n]) ELSE {}

\* the nodes the expansion visits: the start node and, below a visited node,
\* the children that pass the property
RECURSIVE Visited(_)
Visited(S) ==
    LET T == S \cup {c \in UNION {KidsOf(n) : n \in S} : Passes(c)}
    IN  IF T = S THEN S ELSE Visited(T)

\* the nodes the expansion meets: the children of the visited nodes
Met(node) == UNION {KidsOf(n) : n \in Visited({node})}

NoQualifyingKid(n) == \A c \in KidsOf(n) : ~Passes(c)

LeavesOfPassing ==
    call.op = "get_leaves" /\ call.given /\ result.kind = "returns" /\ Passes(call.node)

\* C10 as stated: every node the expansion meets whose property is false or
\* missing, or which has no qualifying children, is emitted.
C10_EveryBranchEmitted ==
    LeavesOfPassing =>
        \A m \in Met(call.node) :
            (~Passes(m) \/ NoQualifyingKid(m)) => m \in ToSet(result.val)

\* C10 amended: the expansion goes down only through children whose property is
\* true, and the nodes emitted are exactly the visited nodes, whose property is
\* true, that have no child whose property is true; a met node whose property
\* is false or missing is not emitted.
C10_PassingLeavesEmitted ==
    LeavesOfPassing =>
        /\ ToSet(result.val) = {n \in Visited({call.node}) : NoQualifyingKid(n)}
        /\ Len(result.val) = Cardinality(ToSet(result.val))
        /\ \A m \in Met(call.node) : ~Passes(m) => m \notin ToSet(result.val)

C10_Witness ==
    /\ LeavesOfPassing
    /\ \E a \in KidsOf(call.node), b \in KidsOf(call.node) :
          /\ Passes(a) /\ a \in ToSet(result.val)
          /\ b \in DOMAIN nprop /\ ~nprop[b] /\ b \notin ToSet(result.val)

----------------------------------------------------------------------------
(* weighted_dist *)

\* the spanned nodes, the two given nodes among them
SpannedWithEnds(rpm1, rpm2, node1, node2) == ToSet(rpm1) \cup ToSet(rpm2)

\* nodes_in_path: set(rpm1) | set(rpm2), node1 and node2 discarded
NodesInPath(rpm1, rpm2, node1, node2) ==
    (ToSet(rpm1) \cup ToSet(rpm2)) \ {node1, node2}

\* the for loop of weighted_dist over nodes that all carry a weight
RECURSIVE DistLoop(_, _, _)
DistLoop(nodes, weights, dist) ==
    IF nodes = {} THEN dist
    ELSE LET node == CHOOSE n \in nodes : TRUE
         IN  DistLoop(nodes \ {node}, weights, dist + weights[node])

\* the loop raises at the first node without a weight: whatever the order of
\* the set, it raises when there is one
WeightedDist(p, weights, node1, node2) ==
    LET ancestor == CommonAncestor(p, node1, node2)
    IN  IF ancestor.kind = "raises" THEN ancestor
        ELSE LET rpm1 == GetRootPathMatch(p, node1, ancestor.val)
                 rpm2 == GetRootPathMatch(p, node2, ancestor.val)
             IN  IF rpm1.kind = "returns_none" \/ rpm2.kind = "returns_none"
                 THEN Raises("TypeError")
                 ELSE LET nodes_in_path ==
                              NodesInPath(rpm1.val, rpm2.val, node1, node2)
                      IN  IF nodes_in_path \subseteq DOMAIN weights
                          THEN Returns(DistLoop(nodes_in_path, weights, 0))
                          ELSE Raises("UnknownNodeProperty")

\* weighted_dist(parents, weights, node1, node2)
CallWeightedDist ==
    /\ Idle
    /\ \E node1 \in PropNodes, node2 \in PropNodes, weights \in NumericalProps :
            /\ nprop' = weights
            /\ call' = [op |-> "weighted_dist", node1 |-> node1, node2 |-> node2]
            /\ result' = WeightedDist(parents, weights, node1, node2)
            /\ TreeUnchanged

NextProp ==
    \/ CallCutOnProperty
    \/ CallGetLeavesWithProp
    \/ CallGetLeaves
    \/ CallWeightedDist

SpecProp == InitProp /\ [][NextProp]_vars

----------------------------------------------------------------------------
(* Properties of weighted_dist *)

\* the nodes on the path from n1 up to the lowest common ancestor and down to n2
OnPath(p, n1, n2) ==
    {x \in AncSelf(p, n1) \cup AncSelf(p, n2) :
        Hops(p, x) >= Hops(p, Lowest(p, n1, n2))}

\* the nodes of that path other than n1 and n2
Between(p, n1, n2) == OnPath(p, n1, n2) \ {n1, n2}

\* the sum of w over a set of nodes
RECURSIVE Total(_, _)
Total(S, w) ==
    IF S = {} THEN 0
    ELSE LET x == CHOOSE y \in S : \A z \in S : y <= z
         IN  w[x] + Total(S \ {x}, w)

DistOfRelated ==
    /\ call.op = "weighted_dist"
    /\ {call.node1, call.node2} \subseteq DOMAIN parents
    /\ Shared(parents, call.node1, call.node2) # {}

====
